---------------------------- MODULE Spec2Model ----------------------------
(***************************************************************************)
(* A model of the t-digest of src/src/lib.rs (struct TDigest): the         *)
(* centroid store, insertion, the two-phase compression (compress and      *)
(* compress_brute), the quantile query, and the merge operators.           *)
(*                                                                         *)
(* Floating point.  An f32/f64 value is one of NaN, -inf, +inf or a        *)
(* finite number; a finite number is an exact rational n/d in lowest       *)
(* terms.  The IEEE rules for NaN and the infinities (inf - inf = NaN,     *)
(* 0 * inf = NaN, x / 0, every comparison with NaN false) are modelled as  *)
(* the hardware computes them.  Rounding of finite results, overflow of    *)
(* finite values to infinity and the sign of zero are NOT modelled: the    *)
(* casts `as f32` / `as f64` are exact here.  Nothing checked below speaks *)
(* about rounding error.                                                   *)
(*                                                                         *)
(* Panics and builds.  The model is the release build: debug_assert! is    *)
(* not compiled in, and the two assertions of compress_brute are stated as *)
(* properties instead.  A panic that every build raises (unwrap on None,   *)
(* integer division by zero) ends the run: the call never returns, `last`  *)
(* records the panic, and no further call is made.                         *)
(*                                                                         *)
(* Ghost fields.  Beside the four fields of struct TDigest, a digest       *)
(* record carries two fields the program does not have, which only record  *)
(* what the code did: `panic`, the panic a method ended in ("none" while   *)
(* none), and `folded`, whether compress_brute has folded centroids since  *)
(* the digest was last cleared.  No method reads them, except that a loop  *)
(* stops at a panic.                                                       *)
(*                                                                         *)
(* Indices.  Rust indexes Vec from 0, TLA+ sequences from 1: l_index and   *)
(* r_index below are the code's index plus one.                            *)
(***************************************************************************)
EXTENDS Integers, Sequences, FiniteSets, TLC

VARIABLES digest, last, hist

vars == <<digest, last, hist>>

---------------------------------------------------------------------------
(* Floating-point values.                                                  *)

RECURSIVE GCD(_, _)
GCD(a, b) == IF b = 0 THEN a ELSE GCD(b, a % b)

Abs(a) == IF a < 0 THEN -a ELSE a

\* The finite value n/d (d # 0), in lowest terms with a positive denominator.
Fin(n, d) ==
  LET g == GCD(Abs(n), Abs(d))
      s == IF d < 0 THEN -1 ELSE 1
  IN  [k |-> "fin", n |-> (s * n) \div g, d |-> (s * d) \div g]

NaN    == [k |-> "nan", n |-> 0, d |-> 1]
PosInf == [k |-> "inf", n |-> 1, d |-> 1]
NegInf == [k |-> "inf", n |-> -1, d |-> 1]

\* usize as f64
FromInt(c) == Fin(c, 1)

is_nan(x)      == x.k = "nan"
is_infinite(x) == x.k = "inf"

Sgn(x) == IF x.n > 0 THEN 1 ELSE IF x.n < 0 THEN -1 ELSE 0

Inf(s) == IF s < 0 THEN NegInf ELSE PosInf

FNeg(x) == IF is_nan(x) THEN NaN ELSE [x EXCEPT !.n = -x.n]

FAdd(x, y) ==
  IF is_nan(x) \/ is_nan(y) THEN NaN
  ELSE IF is_infinite(x) /\ is_infinite(y) THEN (IF x.n = y.n THEN x ELSE NaN)
  ELSE IF is_infinite(x) THEN x
  ELSE IF is_infinite(y) THEN y
  ELSE Fin(x.n * y.d + y.n * x.d, x.d * y.d)

FSub(x, y) == FAdd(x, FNeg(y))

FMul(x, y) ==
  IF is_nan(x) \/ is_nan(y) THEN NaN
  ELSE IF is_infinite(x) \/ is_infinite(y)
       THEN (IF Sgn(x) = 0 \/ Sgn(y) = 0 THEN NaN ELSE Inf(Sgn(x) * Sgn(y)))
  ELSE Fin(x.n * y.n, x.d * y.d)

\* A zero divisor is +0 (no negative zero is modelled).
FDiv(x, y) ==
  IF is_nan(x) \/ is_nan(y) THEN NaN
  ELSE IF is_infinite(x)
       THEN (IF is_infinite(y) THEN NaN
             ELSE Inf(Sgn(x) * (IF Sgn(y) < 0 THEN -1 ELSE 1)))
  ELSE IF is_infinite(y) THEN Fin(0, 1)
  ELSE IF y.n = 0 THEN (IF x.n = 0 THEN NaN ELSE Inf(Sgn(x)))
  ELSE Fin(x.n * y.d, x.d * y.n)

\* ==, <, <=, >=, != of IEEE 754: every comparison with NaN is false but !=.
FEq(x, y) == ~is_nan(x) /\ ~is_nan(y) /\ x = y

FLt(x, y) ==
  /\ ~is_nan(x) /\ ~is_nan(y)
  /\ IF is_infinite(x) THEN x.n < 0 /\ y # x
     ELSE IF is_infinite(y) THEN y.n > 0
     ELSE x.n * y.d < y.n * x.d

FLe(x, y) == FLt(x, y) \/ FEq(x, y)
FGe(x, y) == FLe(y, x)
FGt(x, y) == FLt(y, x)
FNe(x, y) == ~FEq(x, y)

Half == Fin(1, 2)
One  == Fin(1, 1)

---------------------------------------------------------------------------
(* Pure helpers of lib.rs.                                                 *)

\* fn interpolate(x, x1, y1, x2, y2)
interpolate(x, x1, y1, x2, y2) ==
  LET k == FDiv(FSub(x, x1), FSub(x2, x1))
  IN  FAdd(FMul(FSub(One, k), y1), FMul(k, y2))

\* fn can_be_merged(l_mean, r_mean)
can_be_merged(l_mean, r_mean) ==
  FEq(l_mean, r_mean) \/ (~is_infinite(l_mean) /\ ~is_infinite(r_mean))

\* fn cmp_f32(lhs, rhs): partial_cmp, and NaN after every number.
cmp_f32(lhs, rhs) ==
  IF FLt(lhs, rhs) THEN "Less"
  ELSE IF FEq(lhs, rhs) THEN "Equal"
  ELSE IF FGt(lhs, rhs) THEN "Greater"
  ELSE IF is_nan(lhs) THEN (IF is_nan(rhs) THEN "Equal" ELSE "Greater")
  ELSE "Less"

Centroid(mean, cnt) == [mean |-> mean, count |-> cnt]

Front(s) == SubSeq(s, 1, Len(s) - 1)

\* centroids.sort_by(|l, r| cmp_f32(l.mean, r.mean)): Vec::sort_by is a stable
\* sort, so centroids of equal mean keep their order.
RECURSIVE InsertSorted(_, _)
InsertSorted(s, c) ==
  IF s = <<>> THEN <<c>>
  ELSE IF cmp_f32(s[Len(s)].mean, c.mean) = "Greater"
       THEN Append(InsertSorted(Front(s), c), s[Len(s)])
       ELSE Append(s, c)

RECURSIVE sort_by(_)
sort_by(s) ==
  IF s = <<>> THEN <<>> ELSE InsertSorted(sort_by(Front(s)), s[Len(s)])

\* centroids.retain(|c| c.count != 0)
NonZero(c) == c.count # 0
retain(s) == SelectSeq(s, NonZero)

\* while l_index != r_index { centroids[l_index].count = 0; l_index += 1 }
ZeroCounts(cs, from, to) ==
  [i \in 1..Len(cs) |->
     IF from <= i /\ i < to THEN [cs[i] EXCEPT !.count = 0] ELSE cs[i]]

\* The left column "eats" the right: the new (l_mean, l_count).
Eat(l_mean, l_count, r) ==
  LET new_count == l_count + r.count
  IN  [l_count |-> new_count,
       l_mean  |-> IF FNe(r.mean, l_mean)
                   THEN FAdd(l_mean,
                             FDiv(FMul(FromInt(r.count), FSub(r.mean, l_mean)),
                                  FromInt(new_count)))
                   ELSE l_mean]

---------------------------------------------------------------------------
(* struct TDigest { config, centroids, count, unmerged } and its methods,  *)
(* each a function from the digest before the call to the digest after.    *)

TDigest(config, centroids, cnt, unmerged) ==
  [config |-> config, centroids |-> centroids, count |-> cnt,
   unmerged |-> unmerged, panic |-> "none", folded |-> FALSE]

\* TDigestBuilder::build
build(config) == TDigest(config, <<>>, 0, 0)

\* TDigest::len, TDigest::is_empty
len(d)      == d.count
is_empty(d) == len(d) = 0

\* TDigest::clear
clear(d) ==
  [d EXCEPT !.centroids = <<>>, !.count = 0, !.unmerged = 0, !.folded = FALSE]

\* CompressStep without the size test l_count + r.count <= k.
CompressStep_NoSizeTest(st, r_index, total, epsilon) ==
  LET r == st.centroids[r_index]
  IN  IF can_be_merged(st.l_mean, r.mean)
      THEN LET e == Eat(st.l_mean, st.l_count, r)
           IN  [st EXCEPT !.l_count = e.l_count,
                          !.l_mean  = e.l_mean,
                          !.centroids[st.l_index] = Centroid(e.l_mean, e.l_count)]
      ELSE LET zeroed == ZeroCounts(st.centroids, st.l_index + 1, r_index)
           IN  [centroids |-> zeroed,
                l_index   |-> r_index,
                sum       |-> st.sum + st.centroids[st.l_index].count,
                l_mean    |-> zeroed[r_index].mean,
                l_count   |-> zeroed[r_index].count]

\* One iteration of the loop of compress (phase 1) at r_index.  st holds the
\* loop's locals: centroids, l_index, sum, l_mean, l_count; total is
\* self.count, which the loop does not change.
CompressStep(st, r_index, total, epsilon) ==
  LET r    == st.centroids[r_index]
      count_epsilon_4 == FMul(FMul(FromInt(total), epsilon), Fin(4, 1))
      ql   == FDiv(FAdd(FromInt(st.sum), FMul(FromInt(st.l_count), Half)),
                   FromInt(total))
      err1 == FMul(ql, FSub(One, ql))
      qr   == FDiv(FAdd(FAdd(FromInt(st.sum), FromInt(st.l_count)),
                        FMul(FromInt(r.count), Half)),
                   FromInt(total))
      err2 == FMul(qr, FSub(One, qr))
      err  == IF FGt(err1, err2) THEN err2 ELSE err1
      k    == FMul(count_epsilon_4, err)
  IN  IF /\ FLe(FAdd(FromInt(st.l_count), FromInt(r.count)), k)
         /\ can_be_merged(st.l_mean, r.mean)
      THEN LET e == Eat(st.l_mean, st.l_count, r)
           IN  [st EXCEPT !.l_count = e.l_count,
                          !.l_mean  = e.l_mean,
                          !.centroids[st.l_index] = Centroid(e.l_mean, e.l_count)]
      ELSE LET zeroed == ZeroCounts(st.centroids, st.l_index + 1, r_index)
           IN  [centroids |-> zeroed,
                l_index   |-> r_index,
                sum       |-> st.sum + st.centroids[st.l_index].count,
                l_mean    |-> zeroed[r_index].mean,
                l_count   |-> zeroed[r_index].count]

\* for r_index in 1..self.centroids.len()
RECURSIVE CompressLoop(_, _, _, _)
CompressLoop(st, r_index, total, epsilon) ==
  IF r_index > Len(st.centroids) THEN st
  ELSE CompressLoop(CompressStep(st, r_index, total, epsilon),
                    r_index + 1, total, epsilon)

\* compress_phase1 with count_epsilon_4 four times too wide.
compress_phase1_WideScale(d) ==
  IF d.centroids = <<>> THEN [d EXCEPT !.panic = "unwrap on None"]
  ELSE
  LET sorted == sort_by(d.centroids)
      st0 == [centroids |-> sorted, l_index |-> 1, sum |-> 0,
              l_mean |-> sorted[1].mean, l_count |-> sorted[1].count]
      st  == CompressLoop(st0, 2, d.count, FMul(d.config.epsilon, Fin(4, 1)))
  IN  [d EXCEPT !.count     = st.sum + st.l_count,
                !.centroids = retain(st.centroids),
                !.unmerged  = 0]

\* The body of the `if` of compress: sort, sweep, recount, retain.
compress_phase1(d) ==
  IF d.centroids = <<>> THEN [d EXCEPT !.panic = "unwrap on None"]
  ELSE
  LET sorted == sort_by(d.centroids)
      st0 == [centroids |-> sorted, l_index |-> 1, sum |-> 0,
              l_mean |-> sorted[1].mean, l_count |-> sorted[1].count]
      st  == CompressLoop(st0, 2, d.count, d.config.epsilon)
  IN  [d EXCEPT !.count     = st.sum + st.l_count,
                !.centroids = retain(st.centroids),
                !.unmerged  = 0]

\* One iteration of the loop of compress_brute at r_index.
BruteStep(st, r_index, batch_size) ==
  LET r == st.centroids[r_index]
  IN  IF st.batch_pos < batch_size - 1
      THEN LET e == Eat(st.l_mean, st.l_count, r)
           IN  [st EXCEPT !.l_count = e.l_count,
                          !.l_mean  = e.l_mean,
                          !.centroids[st.l_index] = Centroid(e.l_mean, e.l_count),
                          !.batch_pos = st.batch_pos + 1]
      ELSE LET keep   == ~is_nan(st.centroids[st.l_index].mean)
               from   == IF keep THEN st.l_index + 1 ELSE st.l_index
               zeroed == ZeroCounts(st.centroids, from, r_index)
           IN  [centroids |-> zeroed,
                l_index   |-> r_index,
                sum       |-> IF keep
                              THEN st.sum + st.centroids[st.l_index].count
                              ELSE st.sum,
                l_mean    |-> zeroed[r_index].mean,
                l_count   |-> zeroed[r_index].count,
                batch_pos |-> 0]

RECURSIVE BruteLoop(_, _, _)
BruteLoop(st, r_index, batch_size) ==
  IF r_index > Len(st.centroids) THEN st
  ELSE BruteLoop(BruteStep(st, r_index, batch_size), r_index + 1, batch_size)

\* fn compress_brute
compress_brute(d) ==
  IF Len(d.centroids) <= d.config.max_centroids THEN d
  ELSE IF d.config.max_centroids = 0
       THEN [d EXCEPT !.panic = "divide by zero"]
  ELSE
    LET batch_size == (Len(d.centroids) + d.config.max_centroids - 1)
                        \div d.config.max_centroids
        st0 == [centroids |-> d.centroids, l_index |-> 1, sum |-> 0,
                l_mean |-> d.centroids[1].mean,
                l_count |-> d.centroids[1].count, batch_pos |-> 0]
        st  == BruteLoop(st0, 2, batch_size)
    IN  IF ~is_nan(st.centroids[st.l_index].mean)
        THEN [d EXCEPT !.count     = st.sum + st.l_count,
                       !.centroids = retain(st.centroids),
                       !.folded    = TRUE]
        ELSE [d EXCEPT !.count     = st.sum,
                       !.centroids =
                          retain([st.centroids EXCEPT ![st.l_index].count = 0]),
                       !.folded    = TRUE]

\* fn compress, up to its call of compress_brute
compress_phase(d) ==
  IF d.unmerged > 0 \/ Len(d.centroids) > d.config.max_centroids
  THEN compress_phase1(d) ELSE d

\* fn compress
compress(d) == compress_brute(compress_phase(d))

\* fn insert_centroid
insert_centroid(d, centroid) ==
  LET pushed == [d EXCEPT !.count     = d.count + centroid.count,
                          !.unmerged  = d.unmerged + 1,
                          !.centroids = Append(d.centroids, centroid)]
  IN  IF pushed.unmerged > pushed.config.max_unmerged
      THEN compress(pushed) ELSE pushed

\* insert_many without its early return.
insert_many_Unchecked(d, value, cnt) ==
  insert_centroid(d, Centroid(value, cnt))

\* fn insert_many
insert_many(d, value, cnt) ==
  IF cnt = 0 \/ is_nan(value) THEN d
  ELSE insert_centroid(d, Centroid(value, cnt))

\* fn insert
insert(d, value) == insert_many(d, value, 1)

\* Extend::extend: for value in iter { self.insert(value) }; a panic ends
\* the loop.
RECURSIVE extend(_, _, _)
extend(d, iter, i) ==
  IF i > Len(iter) \/ d.panic # "none" THEN d
  ELSE extend(insert(d, iter[i]), iter, i + 1)

\* BitOrAssign::bitor_assign: for c in &rhs.centroids { self.insert_centroid(c) };
\* a panic ends the loop.
RECURSIVE InsertAll(_, _, _)
InsertAll(d, cs, i) ==
  IF i > Len(cs) \/ d.panic # "none" THEN d
  ELSE InsertAll(insert_centroid(d, cs[i]), cs, i + 1)

bitor_assign(d, rhs) == InsertAll(d, rhs.centroids, 1)

\* BitOr::bitor: a clone of self, merged with rhs
bitor(d, rhs) == bitor_assign(d, rhs)

\* append without the call of other.clear().
append_NoClear(d, other) == [self |-> bitor_assign(d, other), other |-> other]

\* TDigest::append: the pair (self, other) after the call
append(d, other) == [self |-> bitor_assign(d, other), other |-> clear(other)]

\* QuantileLoop without the special handling of singletons.
RECURSIVE QuantileLoop_NoSingletons(_, _, _, _, _, _)
QuantileLoop_NoSingletons(cs, i, x, prev_x, sum, prev) ==
  IF i > Len(cs) THEN cs[Len(cs)].mean
  ELSE
    LET c == cs[i]
        current_x == FAdd(FromInt(sum), FMul(FromInt(c.count), Half))
    IN  IF FGe(current_x, x)
        THEN IF FLe(x, prev_x) THEN prev.mean
             ELSE IF FGe(x, current_x) THEN c.mean
             ELSE interpolate(x, prev_x, prev.mean, current_x, c.mean)
        ELSE QuantileLoop_NoSingletons(cs, i + 1, x, current_x,
                                       sum + c.count, c)

\* The loop of quantile_uncompressed from centroid i on, with its locals.
RECURSIVE QuantileLoop(_, _, _, _, _, _)
QuantileLoop(cs, i, x, prev_x, sum, prev) ==
  IF i > Len(cs) THEN cs[Len(cs)].mean
  ELSE
    LET c == cs[i]
        current_x == FAdd(FromInt(sum), FMul(FromInt(c.count), Half))
    IN  IF FGe(current_x, x)
        THEN LET left  == IF prev.count = 1 THEN FAdd(prev_x, Half) ELSE prev_x
                 right == IF c.count = 1 THEN FSub(current_x, Half)
                          ELSE current_x
             IN  IF FLe(x, left) THEN prev.mean
                 ELSE IF FGe(x, right) THEN c.mean
                 ELSE interpolate(x, left, prev.mean, right, c.mean)
        ELSE QuantileLoop(cs, i + 1, x, current_x, sum + c.count, c)

\* fn quantile_uncompressed
quantile_uncompressed(d, level) ==
  IF d.centroids = <<>> THEN NaN
  ELSE IF Len(d.centroids) = 1 THEN d.centroids[1].mean
  ELSE QuantileLoop(d.centroids, 1, FMul(level, FromInt(d.count)),
                    Fin(0, 1), 0, d.centroids[1])

---------------------------------------------------------------------------
(* The state machine: one digest, the calls a caller makes on it, the      *)
(* last call with its arguments and result, and what the caller has fed    *)
(* it since it was last empty.                                             *)

\* The caller's total accepted weight between two empty states.
MaxTotal == 3

Config(epsilon, max_centroids, max_unmerged) ==
  [epsilon |-> epsilon, max_centroids |-> max_centroids,
   max_unmerged |-> max_unmerged]

\* The configurations explored (TDigestBuilder::epsilon, max_centroids,
\* max_unmerged): caps small enough for both compression phases to run.
Configs ==
  { Config(Fin(1, 100), 8, 8),
    Config(Fin(2, 1), 2, 8),
    Config(Fin(1, 100), 1, 8),
    Config(Fin(1, 2), 2, 1),
    Config(Fin(1, 100), 1, 0),
    Config(Fin(1, 100), 0, 1) }

Weights == {1, 2}

\* The arguments of insert_many: finite points of either weight, infinite
\* ones of weight 1, and rejected ones.
Points ==
  ({Fin(0, 1), Fin(1, 1)} \X Weights) \cup ({NegInf, PosInf} \X {1})
    \cup {<<NaN, 1>>, <<NaN, 0>>, <<Fin(0, 1), 0>>}

\* The arguments of extend.
Iters == { <<Fin(0, 1), Fin(1, 1)>>, <<NaN, NegInf>> }

Levels  == {NegInf, Fin(0, 1), Fin(1, 2), Fin(1, 1), PosInf}

\* The other digest of a merge, by its centroid store: what a second digest
\* holds after a few insertions.
RECURSIVE SumCounts(_)
SumCounts(cs) == IF cs = <<>> THEN 0 ELSE cs[1].count + SumCounts(Tail(cs))

Other(cs) == TDigest(Config(Fin(1, 100), 8, 8), cs, SumCounts(cs), Len(cs))

Others ==
  { Other(<<>>),
    Other(<<Centroid(PosInf, 1), Centroid(NegInf, 1)>>),
    Other(<<Centroid(Fin(1, 1), 1), Centroid(Fin(0, 1), 1)>>) }

AllFinite(d) ==
  \A i \in 1..Len(d.centroids) : ~is_infinite(d.centroids[i].mean)

\* The record of the last call: its name, arguments and result; for append,
\* the other digest before (rhs) and after (other) the call.
NoCall ==
  [op |-> "build", value |-> NaN, cnt |-> 0, level |-> NaN, ret |-> NaN,
   pre_len |-> 0, rhs_len |-> 0, rhs_finite |-> TRUE, result_len |-> 0,
   compressed |-> FALSE, rhs |-> Other(<<>>), other |-> Other(<<>>),
   reason |-> "none"]

\* Whether insert_centroid(d, c) compresses.
InsertCompresses(d) == d.unmerged + 1 > d.config.max_unmerged

FMin(x, y) == IF FLt(y, x) THEN y ELSE x
FMax(x, y) == IF FGt(y, x) THEN y ELSE x

\* What the caller fed the digest since it was last empty: the accepted
\* weight and number of centroids, the least and greatest accepted value
\* (NaN while none), whether every accepted value was finite, whether
\* another digest was merged in, and whether a brute phase has folded
\* centroids.
NoHist ==
  [accepted |-> 0, inserted |-> 0, minv |-> NaN, maxv |-> NaN,
   finite |-> TRUE, merged |-> FALSE, brute |-> FALSE]

Fed(h, c) ==
  [h EXCEPT !.accepted = h.accepted + c.count,
            !.inserted = h.inserted + 1,
            !.finite = h.finite /\ ~is_infinite(c.mean),
            !.minv = IF is_nan(h.minv) THEN c.mean ELSE FMin(h.minv, c.mean),
            !.maxv = IF is_nan(h.maxv) THEN c.mean ELSE FMax(h.maxv, c.mean)]

RECURSIVE FedAll(_, _)
FedAll(h, cs) == IF cs = <<>> THEN h ELSE FedAll(Fed(h, cs[1]), Tail(cs))

\* The model explores a call only while len() is within the caller's bound
\* (a compression can raise len() above the accepted weight), and while no
\* call has panicked.
InBounds == len(digest) <= MaxTotal

Running == digest.panic = "none"

\* The record of a call that panicked instead of returning.
Panic(reason) == [NoCall EXCEPT !.op = "panic", !.reason = reason]

\* What `last` becomes: the record of the call if the digest d it leaves has
\* not panicked, the record of the panic if it has.
Returned(d, call) == IF d.panic = "none" THEN call ELSE Panic(d.panic)

Init ==
  /\ \E cfg \in Configs : digest = build(cfg)
  /\ last = NoCall
  /\ hist = NoHist

\* digest.insert_many(value, cnt)
InsertMany(value, cnt) ==
  /\ Running /\ InBounds
  /\ hist.accepted + cnt <= MaxTotal
  /\ digest' = insert_many(digest, value, cnt)
  /\ LET ok == ~(cnt = 0 \/ is_nan(value))
     IN  /\ last' = Returned(digest',
                      [NoCall EXCEPT !.op = "insert_many", !.value = value,
                         !.cnt = cnt, !.pre_len = len(digest),
                         !.result_len = len(digest'),
                         !.compressed = ok /\ InsertCompresses(digest)])
         /\ hist' = IF ok
                    THEN [Fed(hist, Centroid(value, cnt)) EXCEPT
                            !.brute = digest'.folded]
                    ELSE hist

\* digest.insert(value): insert_many(value, 1)
Insert(value) == InsertMany(value, 1)

\* The centroids that extend(iter) inserts: one of weight 1 for each value
\* that is not NaN.
RECURSIVE Accepted(_)
Accepted(iter) ==
  IF iter = <<>> THEN <<>>
  ELSE IF is_nan(iter[1]) THEN Accepted(Tail(iter))
  ELSE <<Centroid(iter[1], 1)>> \o Accepted(Tail(iter))

\* digest.extend(iter)
Extend(iter) ==
  /\ Running /\ InBounds
  /\ hist.accepted + Len(Accepted(iter)) <= MaxTotal
  /\ digest' = extend(digest, iter, 1)
  /\ last' = Returned(digest',
               [NoCall EXCEPT !.op = "extend", !.pre_len = len(digest),
                  !.result_len = len(digest'),
                  !.compressed = Accepted(iter) # <<>> /\ digest'.unmerged = 0])
  /\ hist' = [FedAll(hist, Accepted(iter)) EXCEPT !.brute = digest'.folded]

\* digest.quantile(level), for each level: compress, then read the quantile
\* off the compressed digest.
Quantile ==
  /\ Running /\ InBounds
  /\ digest' = compress(digest)
  /\ hist' = [hist EXCEPT !.brute = digest'.folded]
  /\ \E level \in Levels :
       last' = Returned(digest',
                 [NoCall EXCEPT !.op = "quantile", !.level = level,
                    !.ret = quantile_uncompressed(digest', level),
                    !.pre_len = len(digest), !.result_len = len(digest'),
                    !.compressed = TRUE])

\* digest.quantiles(): compress, and hand out the read-only handle
Quantiles ==
  /\ Running /\ InBounds
  /\ digest' = compress(digest)
  /\ hist' = [hist EXCEPT !.brute = digest'.folded]
  /\ last' = Returned(digest',
               [NoCall EXCEPT !.op = "quantiles", !.pre_len = len(digest),
                  !.result_len = len(digest'), !.compressed = TRUE])

\* Quantiles::get(level) on the handle, which borrows the digest: it lives
\* only while no other call is made on the digest.
Get(level) ==
  /\ last.op \in {"quantiles", "get"}
  /\ last' = [NoCall EXCEPT !.op = "get", !.level = level,
                !.ret = quantile_uncompressed(digest, level),
                !.pre_len = len(digest), !.result_len = len(digest)]
  /\ UNCHANGED <<digest, hist>>

\* digest.clear()
Clear ==
  /\ Running
  /\ digest' = clear(digest)
  /\ last' = [NoCall EXCEPT !.op = "clear", !.pre_len = len(digest)]
  /\ hist' = NoHist

MergedHist(rhs) ==
  [FedAll(hist, rhs.centroids) EXCEPT !.merged = TRUE,
                                      !.brute = digest'.folded]

\* digest |= &rhs
BitOrAssign(rhs) ==
  /\ Running /\ InBounds
  /\ hist.accepted + len(rhs) <= MaxTotal
  /\ digest' = bitor_assign(digest, rhs)
  /\ last' = Returned(digest',
               [NoCall EXCEPT !.op = "bitor_assign", !.pre_len = len(digest),
                  !.rhs_len = len(rhs), !.rhs_finite = AllFinite(rhs),
                  !.result_len = len(digest'),
                  !.compressed = rhs.centroids # <<>> /\ digest'.unmerged = 0])
  /\ hist' = MergedHist(rhs)

\* The record of &digest | &rhs, which returned the digest `result`.
BitOrCall(result, rhs) ==
  Returned(result,
    [NoCall EXCEPT !.op = "bitor", !.pre_len = len(digest),
       !.rhs_len = len(rhs), !.rhs_finite = AllFinite(rhs),
       !.result_len = len(result)])

\* &digest | &rhs: a new digest; the digest itself is only read
BitOr(rhs) ==
  /\ Running /\ InBounds
  /\ hist.accepted + len(rhs) <= MaxTotal
  /\ last' = BitOrCall(bitor(digest, rhs), rhs)
  /\ UNCHANGED <<digest, hist>>

\* digest.append(&mut other); other.clear() is not reached after a panic
Append_(other) ==
  /\ Running /\ InBounds
  /\ hist.accepted + len(other) <= MaxTotal
  /\ digest' = append(digest, other).self
  /\ last' = Returned(digest',
               [NoCall EXCEPT !.op = "append", !.pre_len = len(digest),
                  !.rhs_len = len(other), !.rhs_finite = AllFinite(other),
                  !.result_len = len(digest'),
                  !.compressed = other.centroids # <<>> /\ digest'.unmerged = 0,
                  !.rhs = other, !.other = append(digest, other).other])
  /\ hist' = MergedHist(other)

Next ==
  \/ \E p \in Points : InsertMany(p[1], p[2])
  \/ \E v \in {Fin(1, 1), NaN} : Insert(v)
  \/ \E iter \in Iters : Extend(iter)
  \/ Quantile
  \/ Quantiles
  \/ \E l \in Levels : Get(l)
  \/ Clear
  \/ \E rhs \in Others : BitOrAssign(rhs)
  \/ \E rhs \in Others : BitOr(rhs)
  \/ \E other \in Others : Append_(other)

Spec == Init /\ [][Next]_vars

---------------------------------------------------------------------------
(* The scale function at work: a digest fed points of weight 1 only, with  *)
(* max_centroids above the number of points, so that phase 1 alone shapes  *)
(* the store, and enough points for phase 1 to merge with epsilon = 0.5.   *)

\* The number of points fed.
MaxPoints == 5

ScaleConfigs ==
  { Config(Half, 8, 8), Config(Half, 8, 2), Config(Fin(2, 1), 8, 8) }

ScaleValues == {Fin(0, 1), Fin(1, 1), Fin(2, 1)}

ScaleInit ==
  /\ \E cfg \in ScaleConfigs : digest = build(cfg)
  /\ last = NoCall
  /\ hist = NoHist

\* digest.insert(value)
ScaleInsert(value) ==
  /\ hist.accepted < MaxPoints
  /\ digest' = insert(digest, value)
  /\ last' = [NoCall EXCEPT !.op = "insert_many", !.value = value, !.cnt = 1,
                !.pre_len = len(digest), !.result_len = len(digest'),
                !.compressed = InsertCompresses(digest)]
  /\ hist' = [Fed(hist, Centroid(value, 1)) EXCEPT !.brute = digest'.folded]

\* digest.quantile(0.5)
ScaleQuantile ==
  /\ digest' = compress(digest)
  /\ hist' = [hist EXCEPT !.brute = digest'.folded]
  /\ last' = [NoCall EXCEPT !.op = "quantile", !.level = Half,
                !.ret = quantile_uncompressed(digest', Half),
                !.pre_len = len(digest), !.result_len = len(digest'),
                !.compressed = TRUE]

ScaleNext ==
  \/ \E v \in ScaleValues : ScaleInsert(v)
  \/ ScaleQuantile

ScaleSpec == ScaleInit /\ [][ScaleNext]_vars

---------------------------------------------------------------------------
(* Properties.                                                             *)

Sorted(cs) ==
  \A i \in 1..(Len(cs) - 1) : FLe(cs[i].mean, cs[i + 1].mean)

NonEmpty == ~is_empty(digest)

\* C1: every call that ran a compression pass (quantile, quantiles, an
\* insertion that pushed unmerged above max_unmerged) returns with at most
\* max_centroids stored centroids: the closing assertion of compress_brute.
C1_CompressedWithinMaxCentroids ==
  last.compressed => Len(digest.centroids) <= digest.config.max_centroids

\* C2: after every compression pass the counts of the stored centroids sum
\* to len().
C2_LenIsSumOfCounts ==
  last.compressed => SumCounts(digest.centroids) = len(digest)

\* C3: after every compression pass the stored centroids are in ascending
\* order of mean.
C3_SortedAfterCompression ==
  last.compressed => Sorted(digest.centroids)

\* C4 (as claimed): on a non-empty digest, under any configuration,
\* quantile(level) returns the least inserted value for every level <= 0 and
\* the greatest for every level >= 1.
C4_EndsAreMinMax ==
  (last.op = "quantile" /\ NonEmpty) =>
     /\ FLe(last.level, Fin(0, 1)) => last.ret = hist.minv
     /\ FGe(last.level, Fin(1, 1)) => last.ret = hist.maxv

\* C4 (amended): the same, for a digest with epsilon <= 0.5 whose brute
\* batch phase has folded no centroids since the digest was last empty.
C4_EndsAreMinMaxUnlessFolded ==
  (/\ last.op = "quantile" /\ NonEmpty
   /\ FLe(digest.config.epsilon, Half) /\ ~hist.brute) =>
     /\ FLe(last.level, Fin(0, 1)) => last.ret = hist.minv
     /\ FGe(last.level, Fin(1, 1)) => last.ret = hist.maxv

\* C4 witness: quantile(-inf) answered the least of three or more stored
\* points, which differs from the greatest, with no brute fold.
C4_Witness ==
  /\ last.op = "quantile" /\ last.level = NegInf /\ NonEmpty
  /\ FLe(digest.config.epsilon, Half) /\ ~hist.brute
  /\ Len(digest.centroids) >= 3
  /\ hist.minv # hist.maxv
  /\ last.ret = hist.minv

\* C5: len(A | B) = len(A) + len(B), and after A |= B the new len(A) is the
\* old len(A) + len(B).  Stated for digests A and B that hold finite values
\* only: the case of the claim in which no batch can fold to NaN.
C5_MergeLenIsSum ==
  (/\ last.op \in {"bitor", "bitor_assign"}
   /\ hist.finite /\ last.rhs_finite) =>
     last.result_len = last.pre_len + last.rhs_len

\* C6: after insert / insert_many calls with finite values on an initially
\* empty digest, interleaved with queries, len() is the sum of the accepted
\* weights.
C6_LenIsAcceptedWeight ==
  (hist.finite /\ ~hist.merged) => len(digest) = hist.accepted

\* C7: insert_many(value, cnt) with cnt = 0 or value NaN leaves the digest
\* (centroids, len, unmerged, configuration) as it was: no push, no
\* compression.
C7_RejectedInsertIsNoOp ==
  [][(last'.op = "insert_many" /\ (last'.cnt = 0 \/ is_nan(last'.value)))
       => digest' = digest]_vars

\* C7 witness: a zero-weight point was rejected by a digest whose unmerged
\* buffer is full, where an accepted point would have compressed.
C7_Witness ==
  /\ last.op = "insert_many" /\ last.cnt = 0 /\ ~is_nan(last.value)
  /\ digest.unmerged = digest.config.max_unmerged
  /\ digest.unmerged > 0

\* C8: once a query has returned, a further quantile(l) or get(l) leaves the
\* digest unchanged, and returns what the previous query returned for the
\* same level.
C8_QueriesIdempotent ==
  [][(last.op \in {"quantile", "quantiles", "get"}
      /\ last'.op \in {"quantile", "get"})
       => /\ digest' = digest
          /\ (last.op # "quantiles" /\ last'.level = last.level)
                => last'.ret = last.ret]_vars

\* C9: len() = 0 exactly when the centroid store is empty, and quantile on
\* an empty digest returns NaN.
C9_EmptyIffNoCentroids ==
  /\ is_empty(digest) <=> digest.centroids = <<>>
  /\ (last.op = "quantile" /\ is_empty(digest)) => is_nan(last.ret)

\* The digest holds n finite points, each inserted with weight 1, none merged.
Singletons ==
  /\ hist.finite /\ ~hist.merged
  /\ hist.inserted = hist.accepted
  /\ Len(digest.centroids) = hist.inserted
  /\ len(digest) = hist.inserted
  /\ \A i \in 1..Len(digest.centroids) : digest.centroids[i].count = 1

\* ceil(level * n) for a finite level
CeilTimes(level, n) == -((-(level.n * n)) \div level.d)

Max(a, b) == IF a >= b THEN a ELSE b

\* The r-th smallest mean of cs (1 <= r <= Len(cs)).
RankValue(cs, r) ==
  CHOOSE v \in {cs[i].mean : i \in 1..Len(cs)} :
    /\ Cardinality({i \in 1..Len(cs) : FLt(cs[i].mean, v)}) < r
    /\ r <= Cardinality({i \in 1..Len(cs) : FLe(cs[i].mean, v)})

\* C10: on n >= 1 unmerged singletons, quantile(level) for a level in [0, 1]
\* is exactly the sample of rank max(1, ceil(level * n)).
C10_SingletonsExact ==
  (/\ last.op \in {"quantile", "get"}
   /\ Singletons /\ Len(digest.centroids) >= 1
   /\ FLe(Fin(0, 1), last.level) /\ FLe(last.level, Fin(1, 1))) =>
     last.ret = RankValue(digest.centroids,
                          Max(1, CeilTimes(last.level, Len(digest.centroids))))

\* C10 witness: three singletons, not all equal, queried at level 1/2.
C10_Witness ==
  /\ last.op = "quantile" /\ last.level = Fin(1, 2)
  /\ Singletons /\ Len(digest.centroids) = 3
  /\ hist.minv # hist.maxv
  /\ last.ret = digest.centroids[2].mean

\* C11: a.append(&mut b) leaves a as a |= &b would, and leaves b with an
\* empty store, len() = 0, unmerged = 0 and its configuration: b cleared.
C11_AppendIsMergeThenClear ==
  [][last'.op = "append" =>
       /\ digest' = bitor_assign(digest, last'.rhs)
       /\ last'.other.centroids = <<>>
       /\ len(last'.other) = 0
       /\ last'.other.unmerged = 0
       /\ last'.other.config = last'.rhs.config
       /\ last'.other = clear(last'.rhs)]_vars

\* C11 witness: a non-empty digest appended a non-empty other, which is
\* empty afterwards and whose weight the digest has taken over.
C11_Witness ==
  /\ last.op = "append" /\ last.pre_len > 0
  /\ last.rhs.centroids # <<>> /\ last.rhs.unmerged > 0
  /\ last.other.centroids = <<>>
  /\ len(digest) = last.pre_len + last.rhs_len

\* C12: no call of the core panics, under any configuration the builder
\* accepts (max_centroids = 0 included) and after any sequence of calls.
C12_NoCallAborts == last.op # "panic"

\* C13: with max_centroids >= 1, every call returns with unmerged <=
\* max_unmerged and at most max_centroids + max_unmerged stored centroids,
\* and an insertion that pushed unmerged above max_unmerged returns with
\* unmerged = 0.
C13_BoundedBuffer ==
  (Running /\ digest.config.max_centroids >= 1) =>
     /\ digest.unmerged <= digest.config.max_unmerged
     /\ Len(digest.centroids)
          <= digest.config.max_centroids + digest.config.max_unmerged
     /\ (last.op = "insert_many" /\ last.compressed) => digest.unmerged = 0

\* Whether compress_brute folds centroids on the store of p.
Folds(p) == Len(p.centroids) > p.config.max_centroids

NoNaN(cs) == \A i \in 1..Len(cs) : ~is_nan(cs[i].mean)

\* The batches of the brute phase on p: batch j is the centroids
\* (j - 1) * batch_size + 1 .. j * batch_size of the store, the last one
\* possibly shorter.
BatchSize(p) ==
  (Len(p.centroids) + p.config.max_centroids - 1) \div p.config.max_centroids

BatchFirst(p, j) == (j - 1) * BatchSize(p) + 1

BatchLast(p, j) ==
  IF j * BatchSize(p) < Len(p.centroids) THEN j * BatchSize(p)
  ELSE Len(p.centroids)

Batches(p) == {j \in 1..Len(p.centroids) : BatchFirst(p, j) <= Len(p.centroids)}

\* The mean and weight a batch accumulates, its centroids from..to folded
\* into acc from left to right.
RECURSIVE BatchFold(_, _, _, _)
BatchFold(cs, acc, from, to) ==
  IF from > to THEN acc
  ELSE BatchFold(cs, Eat(acc.l_mean, acc.l_count, cs[from]), from + 1, to)

Batch(p, j) ==
  BatchFold(p.centroids,
            [l_mean  |-> p.centroids[BatchFirst(p, j)].mean,
             l_count |-> p.centroids[BatchFirst(p, j)].count],
            BatchFirst(p, j) + 1, BatchLast(p, j))

\* The total weight of the batches j, j + 1, ... of p whose accumulated
\* mean is NaN.
RECURSIVE NaNWeightFrom(_, _)
NaNWeightFrom(p, j) ==
  IF j \notin Batches(p) THEN 0
  ELSE (IF is_nan(Batch(p, j).l_mean) THEN Batch(p, j).l_count ELSE 0)
         + NaNWeightFrom(p, j + 1)

NaNWeight(p) == NaNWeightFrom(p, 1)

\* C14: a compression leaves no centroid with a NaN mean, and a brute phase
\* that folds (on the store p that phase 1 hands it) changes len() by
\* exactly minus the weight of the batches that accumulate a NaN mean.
C14_NaNBatchRemovedWhole ==
  [][last'.op \in {"quantile", "quantiles"} =>
       LET p == compress_phase(digest)
       IN  /\ NoNaN(digest'.centroids)
           /\ Folds(p) => len(digest') = len(p) - NaNWeight(p)]_vars

\* The total weight of the centroids of cs whose mean is x.
RECURSIVE WeightOf(_, _)
WeightOf(cs, x) ==
  IF cs = <<>> THEN 0
  ELSE (IF cs[1].mean = x THEN cs[1].count ELSE 0) + WeightOf(Tail(cs), x)

\* C15: a compression whose brute phase is a no-op leaves no NaN mean,
\* keeps the weight stored at +inf and at -inf as it was, and leaves len()
\* unchanged.
C15_Phase1KeepsInfinities ==
  [][(/\ last'.op \in {"quantile", "quantiles"}
      /\ ~Folds(compress_phase(digest))) =>
       /\ NoNaN(digest'.centroids)
       /\ WeightOf(digest'.centroids, PosInf) = WeightOf(digest.centroids, PosInf)
       /\ WeightOf(digest'.centroids, NegInf) = WeightOf(digest.centroids, NegInf)
       /\ len(digest') = len(digest)]_vars

\* C16: on a digest fed weight-1 points only whose brute phase never ran,
\* after every compression each centroid weighs at most
\* max(1, epsilon * len()), and with epsilon <= 0.5 the first centroid is
\* the least point and the last one the greatest, each with weight 1.
C16_ScaleBound ==
  (/\ last.compressed /\ ~hist.brute /\ digest.centroids # <<>>
   /\ hist.inserted = hist.accepted) =>
     /\ \A i \in 1..Len(digest.centroids) :
          \/ digest.centroids[i].count = 1
          \/ FLe(FromInt(digest.centroids[i].count),
                 FMul(digest.config.epsilon, FromInt(len(digest))))
     /\ FLe(digest.config.epsilon, Half) =>
          /\ digest.centroids[1] = Centroid(hist.minv, 1)
          /\ digest.centroids[Len(digest.centroids)] = Centroid(hist.maxv, 1)

\* C16 witness: with epsilon = 0.5, phase 1 has merged two of five points
\* into an inner centroid, and the ends are the distinct least and greatest
\* points with weight 1.
C16_Witness ==
  /\ last.compressed /\ ~hist.brute /\ hist.inserted = hist.accepted
  /\ digest.config.epsilon = Half
  /\ len(digest) = 5 /\ Len(digest.centroids) = 4
  /\ \E i \in 2..3 : digest.centroids[i].count = 2
  /\ digest.centroids[1] = Centroid(hist.minv, 1)
  /\ digest.centroids[4] = Centroid(hist.maxv, 1)
  /\ hist.minv # hist.maxv

=============================================================================
